---- MODULE Spec2Model ----
(***************************************************************************)
(* Model of the notification attribution and event coordination subsystem  *)
(* of niri_window_buttons:                                                 *)
(*   - the window/notification matcher (src/src/lib.rs),                   *)
(*   - the event coordinator (src/src/global.rs),                          *)
(*   - the notification monitor (src/src/notifications.rs),                *)
(*   - the process-identity cache (src/src/notifications/pid_cache.rs),    *)
(*   - the process ancestry resolver (src/src/system.rs).                  *)
(* Each subsystem has its own specification over the shared variables;     *)
(* the variables a specification does not use keep their initial value.    *)
(***************************************************************************)
EXTENDS Integers, Sequences, FiniteSets, TLC

\* ------------------------------------------------------------------ bounds
\* Largest number of windows in one snapshot.
MaxWindows == 2
\* Largest number of items each event source emits.
MaxEvents == 2
\* The clock of the cache worker runs from 0 to MaxTime.
MaxTime == 3
\* Parent ids written in the process records run from 0 to MaxPpid.
MaxPpid == 12

\* ------------------------------------------------------------------ options
\* An Option<T> is a sequence of at most one T: None is <<>>, Some(x) is <<x>>.
None == <<>>
Some(x) == <<x>>
IsSome(o) == Len(o) = 1
Unwrap(o) == o[1]

\* ----------------------------------------------------------------- strings
\* A string is a sequence of one-character strings.
Lower(c) ==
    CASE c = "A" -> "a"
      [] c = "B" -> "b"
      [] c = "C" -> "c"
      [] c = "Z" -> "z"
      [] OTHER -> c

\* str::to_lowercase
to_lowercase(s) == [i \in DOMAIN s |-> Lower(s[i])]

\* str::contains('.')
contains_dot(s) == \E i \in DOMAIN s : s[i] = "."

\* s.split('.').next_back(): the text after the last '.', the whole string when
\* there is none (split always yields at least one item).
split_next_back(s) ==
    LET dots == {i \in DOMAIN s : s[i] = "."}
        last == IF dots = {} THEN 0 ELSE CHOOSE i \in dots : \A j \in dots : j <= i
    IN  SubSeq(s, last + 1, Len(s))

\* The strings of the model: "a.B", "c.b", "b", "B".
S_aB == <<"a", ".", "B">>
S_cb == <<"c", ".", "b">>
S_b  == <<"b">>
S_B  == <<"B">>

\* app_id values of windows, desktop-entry hints of notifications.
AppIds == {None, Some(S_aB), Some(S_cb), Some(S_b)}
DesktopEntries == {None, Some(S_aB), Some(S_b)}

\* notifications.map_app_ids of the configuration: "b" is remapped to "B",
\* which is the app_id of no window.
map_app_ids == [e \in {S_b} |-> S_B]

\* Settings::notifications_app_map
notifications_app_map_empty(app_id) == None
notifications_app_map(app_id) ==
    IF app_id \in DOMAIN map_app_ids THEN Some(map_app_ids[app_id]) ELSE None

\* ----------------------------------------------------------- process tree
\* The fourth field of /proc/<p>/stat for the processes 1, 2, 3 of the model:
\* process 1 is a root (ppid 0), 2 is a child of 1, 3 a child of 2.
proc_stat_ppid_cyclic == <<3, 1, 2>>
proc_stat_ppid == <<0, 1, 2>>
Pids == DOMAIN proc_stat_ppid

\* The decimal digits, and an integer written in decimal as the kernel writes
\* the numbers of a stat record.
Digits == <<"0", "1", "2", "3", "4", "5", "6", "7", "8", "9">>
RECURSIVE to_string(_)
to_string(n) ==
    IF n < 0 THEN <<"-">> \o to_string(0 - n)
    ELSE IF n < 10 THEN <<Digits[n + 1]>>
    ELSE Append(to_string(n \div 10), Digits[(n % 10) + 1])

\* The fields of a record joined by single spaces.
RECURSIVE join_fields(_)
join_fields(fields) ==
    IF fields = <<>> THEN <<>>
    ELSE IF Len(fields) = 1 THEN fields[1]
    ELSE fields[1] \o <<" ">> \o join_fields(Tail(fields))

\* /proc/<pid>/stat as ProcessInfo::query finds it: whether read_future opens
\* it, whether read_to_string reads it, and its text.
StatRecord(opens, reads, content) ==
    [opens |-> opens, reads |-> reads, content |-> content]

\* The record of a process of the model: pid, (comm), state, ppid, pgrp.
proc_stat(pid) ==
    StatRecord(TRUE, TRUE,
               join_fields(<<to_string(pid), <<"(", "x", ")">>, <<"S">>,
                             to_string(proc_stat_ppid[pid]), to_string(pid)>>))

\* str::split(' '): the pieces between the spaces, empty pieces included.
RECURSIVE split_space(_)
split_space(s) ==
    LET spaces == {i \in DOMAIN s : s[i] = " "}
    IN  IF spaces = {} THEN <<s>>
        ELSE LET first == CHOOSE i \in spaces : \A j \in spaces : i <= j
             IN  <<SubSeq(s, 1, first - 1)>>
                    \o split_space(SubSeq(s, first + 1, Len(s)))

\* Iterator::nth (counted from 0).
nth(items, n) == IF Len(items) > n THEN Some(items[n + 1]) ELSE None

\* The value of a digit character, -1 for another character.
digit_value(c) ==
    IF \E d \in DOMAIN Digits : Digits[d] = c
    THEN (CHOOSE d \in DOMAIN Digits : Digits[d] = c) - 1
    ELSE -1

\* The number a sequence of digits denotes.
RECURSIVE digits_value(_)
digits_value(s) ==
    IF s = <<>> THEN 0
    ELSE 10 * digits_value(SubSeq(s, 1, Len(s) - 1)) + digit_value(s[Len(s)])

\* str::parse::<i64>: an optional sign and at least one digit, nothing else.
\* The numbers of the model are far from the ends of i64.
parse_i64(s) ==
    LET signed == Len(s) > 0 /\ s[1] \in {"+", "-"}
        digits == IF signed THEN Tail(s) ELSE s
    IN  IF digits # <<>> /\ \A i \in DOMAIN digits : digit_value(digits[i]) >= 0
        THEN Some(IF signed /\ s[1] = "-" THEN 0 - digits_value(digits)
                  ELSE digits_value(digits))
        ELSE None

\* Line 39: a parent id of 0 is no parent.
parent_id_keeping_zero(ppid) == Some(ppid)
parent_id(ppid) == IF ppid = 0 THEN None ELSE Some(ppid)

\* What ProcessInfo::query returns: Ok with the parent or Err with the kind.
Ok(parent) == [ok |-> TRUE, parent_id |-> parent, error |-> "none"]
Err(kind) == [ok |-> FALSE, parent_id |-> None, error |-> kind]

\* ProcessInfo::query (lines 14-41) on the record it finds.
ProcessInfo_query_record(record) ==
    IF ~record.opens THEN Err("FileOpen")
    ELSE IF ~record.reads THEN Err("FileRead")
    ELSE LET ppid_str == nth(split_space(record.content), 3)
         IN  IF ~IsSome(ppid_str) THEN Err("MalformedStat")
             ELSE LET ppid == parse_i64(Unwrap(ppid_str))
                  IN  IF ~IsSome(ppid) THEN Err("InvalidPpid")
                      ELSE Ok(parent_id(Unwrap(ppid)))

\* ProcessInfo::query for a process of the model.  readable = FALSE is the
\* record that cannot be opened (the process is gone).
ProcessInfo_query(pid, readable) ==
    IF ~readable \/ pid \notin Pids
    THEN ProcessInfo_query_record(StatRecord(FALSE, FALSE, <<>>))
    ELSE ProcessInfo_query_record(proc_stat(pid))

\* The records of the resolver specification: up to five fields, the command
\* with or without a space in it, the fourth field a number or not.
CommTexts == {<<"(", "x", ")">>, <<"(", "x", " ", "y", ")">>, <<>>}
PpidTexts ==
    {to_string(v) : v \in 0..MaxPpid}
        \cup {<<"-", "1">>, <<"+", "2">>, <<"x">>, <<>>, <<"1", "x">>, <<"1", "\n">>,
              <<"-">>}
StatTexts ==
    {join_fields(SubSeq(<<<<"7">>, comm, <<"S">>, ppid, pgrp>>, 1, n)) :
        comm \in CommTexts, ppid \in PpidTexts, pgrp \in {<<"7">>, <<"1", "2">>},
        n \in 0..5}
StatRecords ==
    {StatRecord(FALSE, FALSE, <<>>), StatRecord(TRUE, FALSE, <<>>)}
        \cup {StatRecord(TRUE, TRUE, text) : text \in StatTexts}

\* ----------------------------------------------------------------- windows
WindowIds == 1..MaxWindows
Outputs == {"o1", "o2"}
\* Windows belong to the application processes 1 and 2; the helper process 3
\* owns no window.
WindowPids == {None, Some(1), Some(2)}

WindowAttrs ==
    [app_id : AppIds, pid : WindowPids, is_focused : BOOLEAN, output : Outputs]

MkWindow(i, a) ==
    [id |-> i, app_id |-> a.app_id, pid |-> a.pid,
     is_focused |-> a.is_focused, output |-> a.output]

\* The ids of I in increasing order.
RECURSIVE SortedSeq(_)
SortedSeq(I) ==
    IF I = {} THEN <<>>
    ELSE LET m == CHOOSE x \in I : \A y \in I : y <= x
         IN  Append(SortedSeq(I \ {m}), m)

\* A snapshot lists windows with distinct ids; the compositor reports at most
\* one focused window.
SnapshotsOver(I) ==
    LET ord == SortedSeq(I)
    IN  {[k \in DOMAIN ord |-> MkWindow(ord[k], f[k])] :
            f \in {g \in [DOMAIN ord -> WindowAttrs] :
                     Cardinality({k \in DOMAIN ord : g[k].is_focused}) <= 1}}

Snapshots == UNION {SnapshotsOver(I) : I \in SUBSET WindowIds}

\* Notifications: the pid resolved through the bus cache (process_id), the
\* sender-pid hint and the desktop-entry hint of the payload.
NotificationDatas ==
    [process_id : {None, Some(3)}, sender_pid : {None, Some(2)},
     desktop_entry : DesktopEntries]

\* The settings the subsystem reads.
SettingsDomain ==
    [notifications_enabled : BOOLEAN,
     notifications_use_desktop_entry : BOOLEAN,
     notifications_use_fuzzy_matching : BOOLEAN]

\* ------------------------------------------------------------------- state
VARIABLES
    settings,           \* Settings (fixed at construction)
    display_filter,     \* DisplayFilter: None is ShowAll, Some(o) is Only(o)
    previous_snapshot,  \* ModuleInstance.previous_snapshot: Option<WindowSnapshot>
    buttons,            \* ModuleInstance.buttons: window id -> button state
    hn_pc,              \* consumer position: "idle", or "query" while
                        \* handle_notification awaits ProcessInfo::query
    notification,       \* the notification being handled, or handled last
    process_id,         \* handle_notification's local process_id
    matched,            \* handle_notification's local matched
    pid_marked,         \* ids marked urgent by PID matching (this notification)
    app_marked,         \* ids marked urgent by app-id matching (this notification)
    walked,             \* the pids looked up in the map, in order
    walk_end,           \* how the walk ended: "none", "root", "error"
    phase2,             \* whether app-identifier matching was reached (line 210)
    stat_record,        \* the record the last ProcessInfo::query of the
                        \* resolver specification found
    query_result        \* what that call returned

resolver_vars == <<stat_record, query_result>>

matcher_vars ==
    <<settings, display_filter, previous_snapshot, buttons, hn_pc, notification,
      process_id, matched, pid_marked, app_marked, walked, walk_end, phase2,
      resolver_vars>>

\* The event coordinator (global.rs).
VARIABLES
    tx_chan,                 \* the merged unbounded channel (tx -> rx), oldest first
    received,                \* the events the stream has yielded to the consumer
    workspace_stream_delay,  \* TRUE while workspace_stream_delay is Some(..)
    forwarders,              \* the producer tasks that have been spawned
    emitted,                 \* number of items each source has emitted
    ws_after_window,         \* a workspace change was signalled after a
                             \* WindowUpdate had been yielded to the consumer
    rx_open,                 \* the consumer still holds the stream (and its rx)
    failed_sends,            \* sends each forwarder has tried on the closed channel
    notif_chan               \* the channel of notifications::create_stream
                             \* (run_monitor -> notification stream)

\* The coordinator's variables but notif_chan and emitted.
coord_rest ==
    <<tx_chan, received, workspace_stream_delay, forwarders, ws_after_window,
      rx_open, failed_sends>>

coord_vars == <<coord_rest, emitted, notif_chan>>

\* The process-identity cache (notifications/pid_cache.rs).
VARIABLES
    entries,     \* CacheStorage.entries: connection -> [pid, expires_at]
    now,         \* SystemTime::now()
    worker,      \* cache_worker: "running" or "stopped"
    request,     \* the CacheRequest::Query not yet answered, if any: in the
                 \* request channel or, during its lookup, with the worker
    lookup,      \* the daemon call the worker is suspended on, if any: for
                 \* which operation and identity, and the entries it left
    qhist,       \* an earlier finished query kept for comparison: identity,
                 \* answer, time, and whether an ownership loss came since
    last_query,  \* the query finished last, with the kept earlier query of
                 \* the same identity
    last_op,     \* the last operation of the worker on the storage, with the
                 \* entries it found
    evicted,     \* identities evicted by an ownership loss and neither
                 \* stored nor queried since, with what the loss found
    observed     \* the histories a specification records: "queries" for
                 \* qhist, "storage" for last_op and evicted

cache_vars ==
    <<entries, now, worker, request, lookup, qhist, last_query, last_op, evicted,
      observed>>

\* The notification monitor (notifications.rs).
VARIABLES
    monitor,     \* run_monitor: "running" or "stopped"
    handling,    \* the message handle_message is suspended on, if any
    bus_log      \* what the monitor's message stream has yielded, oldest first

monitor_vars == <<monitor, handling, bus_log>>

vars == <<matcher_vars, coord_vars, cache_vars, monitor_vars>>

\* ------------------------------------------------------------ window update
\* DisplayFilter::should_display
should_display(filter, output) ==
    IF filter = None THEN TRUE ELSE Unwrap(filter) = output

\* ignore_app_ids of the configuration: the application "x" gets no button.
S_x == <<"x">>
ignore_app_ids == {S_x}

\* Settings::should_ignore
should_ignore(app_id) == \E id \in ignore_app_ids : id = app_id

\* The filter closure of handle_window_update (lines 279-289).
\* get_output().unwrap_or_default() is the window's output name.
PassesFilter(w, filter) ==
    /\ should_display(filter, w.output)
    /\ ~(IsSome(w.app_id) /\ should_ignore(Unwrap(w.app_id)))

\* WindowButton::update_focus on a button state.
update_focus_clearing(b, is_focused) == [urgent |-> FALSE, focused |-> is_focused]
update_focus(b, is_focused) ==
    IF is_focused THEN [urgent |-> FALSE, focused |-> TRUE]
    ELSE [urgent |-> b.urgent, focused |-> FALSE]

\* WindowButton::create: a new button is neither urgent nor focused.
WindowButton_create_urgent == [urgent |-> TRUE, focused |-> FALSE]
WindowButton_create == [urgent |-> FALSE, focused |-> FALSE]

\* WindowButton::mark_urgent
mark_urgent(b) == [b EXCEPT !.urgent = TRUE]

\* The button map handle_window_update leaves (lines 276-319): a button for
\* every window passing the filter (kept if it existed), none for the others.
ButtonsAfterUpdateKeepingAbsent(old, snapshot, filter) ==
    LET shown == {k \in DOMAIN snapshot : PassesFilter(snapshot[k], filter)}
        win(i) == snapshot[CHOOSE k \in shown : snapshot[k].id = i]
    IN  [i \in {snapshot[k].id : k \in shown} \cup DOMAIN old |->
            IF i \in {snapshot[k].id : k \in shown}
            THEN update_focus(IF i \in DOMAIN old THEN old[i] ELSE WindowButton_create,
                              win(i).is_focused)
            ELSE old[i]]
ButtonsAfterUpdate(old, snapshot, filter) ==
    LET shown == {k \in DOMAIN snapshot : PassesFilter(snapshot[k], filter)}
        win(i) == snapshot[CHOOSE k \in shown : snapshot[k].id = i]
    IN  [i \in {snapshot[k].id : k \in shown} |->
            update_focus(IF i \in DOMAIN old THEN old[i] ELSE WindowButton_create,
                         win(i).is_focused)]

\* ------------------------------------------------------- handle_notification
\* NotificationData::get_process_id: the bus-cache pid when there is one,
\* the sender-pid hint otherwise.
get_process_id(n) ==
    IF IsSome(n.process_id) THEN n.process_id ELSE n.sender_pid

\* ProcessWindowMap::build: a HashMap collected from (pid, window) pairs, so
\* of several windows with one pid the last of the snapshot stays.
ProcessWindowMap_build(windows) ==
    LET withPid == {k \in DOMAIN windows : IsSome(windows[k].pid)}
        keys == {Unwrap(windows[k].pid) : k \in withPid}
    IN  [p \in keys |->
            windows[CHOOSE k \in withPid :
                        /\ Unwrap(windows[k].pid) = p
                        /\ \A j \in withPid : Unwrap(windows[j].pid) = p => j <= k]]

\* ProcessWindowMap::lookup
ProcessWindowMap_lookup(map, pid) ==
    IF pid \in DOMAIN map THEN Some(map[pid]) ELSE None

\* Lines 179-188: the window ids marked for one pid of the chain.
PidMatchAnyWindow(windows, btns, pid) ==
    LET window == ProcessWindowMap_lookup(ProcessWindowMap_build(windows), pid)
    IN  IF IsSome(window) /\ ~Unwrap(window).is_focused
        THEN {Unwrap(window).id}
        ELSE {}
PidMatch(windows, btns, pid) ==
    LET window == ProcessWindowMap_lookup(ProcessWindowMap_build(windows), pid)
    IN  IF IsSome(window)
           /\ ~Unwrap(window).is_focused
           /\ Unwrap(window).id \in DOMAIN btns
        THEN {Unwrap(window).id}
        ELSE {}

\* Lines 205-207: handle_notification returns after the walk when matched.
ReturnsAfterWalkNever(m) == FALSE
ReturnsAfterWalk(m) == m

\* Lines 244-258: whether a window that is not an exact match is pushed to
\* fuzzy_matches.
FuzzyCandidateNoDotGuard(app_identifier, fuzzy_enabled, entry_lower, entry_suffix) ==
    /\ fuzzy_enabled
    /\ \/ to_lowercase(app_identifier) = entry_lower
       \/ to_lowercase(split_next_back(app_identifier)) = entry_suffix
FuzzyCandidateAlwaysEnabled(app_identifier, fuzzy_enabled, entry_lower, entry_suffix) ==
    \/ to_lowercase(app_identifier) = entry_lower
    \/ /\ contains_dot(app_identifier)
       /\ to_lowercase(split_next_back(app_identifier)) = entry_suffix
FuzzyCandidate(app_identifier, fuzzy_enabled, entry_lower, entry_suffix) ==
    /\ fuzzy_enabled
    /\ \/ to_lowercase(app_identifier) = entry_lower
       \/ /\ contains_dot(app_identifier)
          /\ to_lowercase(split_next_back(app_identifier)) = entry_suffix

\* Lines 261-267: the fuzzy matches that are marked after the scan.
FuzzyMarkedIgnoringExact(exact_match, fuzzy_matches, btns) ==
    {fuzzy_matches[k] : k \in {j \in DOMAIN fuzzy_matches : fuzzy_matches[j] \in DOMAIN btns}}
FuzzyMarked(exact_match, fuzzy_matches, btns) ==
    IF ~exact_match
    THEN {fuzzy_matches[k] : k \in {j \in DOMAIN fuzzy_matches : fuzzy_matches[j] \in DOMAIN btns}}
    ELSE {}

\* Lines 231-259: the scan of the snapshot from window k on; acc holds
\* exact_match, the ids marked as exact matches and fuzzy_matches.
RECURSIVE ScanWindows(_, _, _, _, _, _)
ScanWindows(windows, k, btns, mapped_entry, fuzzy_enabled, acc) ==
    IF k > Len(windows) THEN acc
    ELSE LET window == windows[k]
             entry_lower == to_lowercase(mapped_entry)
             entry_suffix == to_lowercase(split_next_back(mapped_entry))
             next ==
                IF ~IsSome(window.app_id) THEN acc
                ELSE IF Unwrap(window.app_id) = mapped_entry
                THEN IF window.id \in DOMAIN btns
                     THEN [acc EXCEPT !.exact_match = TRUE,
                                      !.exact_marked = @ \cup {window.id}]
                     ELSE acc
                ELSE IF FuzzyCandidate(Unwrap(window.app_id), fuzzy_enabled,
                                       entry_lower, entry_suffix)
                THEN [acc EXCEPT !.fuzzy_matches = Append(@, window.id)]
                ELSE acc
         IN  ScanWindows(windows, k + 1, btns, mapped_entry, fuzzy_enabled, next)

\* Settings::notifications_use_desktop_entry
notifications_use_desktop_entry_always(cfg) == TRUE
notifications_use_desktop_entry(cfg) == cfg.notifications_use_desktop_entry

\* Lines 210-267: the ids app-identifier matching marks.
AppIdMatch(n, windows, btns, cfg) ==
    IF ~notifications_use_desktop_entry(cfg) THEN {}
    ELSE IF ~IsSome(n.desktop_entry) THEN {}
    ELSE LET desktop_entry == Unwrap(n.desktop_entry)
             mapped == notifications_app_map(desktop_entry)
             mapped_entry == IF IsSome(mapped) THEN Unwrap(mapped) ELSE desktop_entry
             scan == ScanWindows(windows, 1, btns, mapped_entry,
                                 cfg.notifications_use_fuzzy_matching,
                                 [exact_match |-> FALSE, exact_marked |-> {},
                                  fuzzy_matches |-> <<>>])
         IN  scan.exact_marked
                \cup FuzzyMarked(scan.exact_match, scan.fuzzy_matches, btns)

\* buttons with mark_urgent applied to the ids of marks.
MarkAll(btns, marks) ==
    [i \in DOMAIN btns |-> IF i \in marks THEN mark_urgent(btns[i]) ELSE btns[i]]

\* Lines 199-202: an Err of ProcessInfo::query breaks out of the loop; it is
\* not returned from handle_notification.
QueryErrorReturnsAlways(end) == end = "error"
QueryErrorReturns(end) == FALSE

\* The end of handle_notification once the walk is over (lines 205-267);
\* end is "none" when the notification carries no pid.
FinishNotification(end, m, pidMarks, btns) ==
    LET windows == Unwrap(previous_snapshot)
        enter == ~QueryErrorReturns(end) /\ ~ReturnsAfterWalk(m)
        marks == IF enter
                 THEN AppIdMatch(Unwrap(notification'), windows, btns, settings)
                 ELSE {}
    IN  /\ hn_pc' = "idle"
        /\ walk_end' = end
        /\ matched' = m
        /\ pid_marked' = pidMarks
        /\ phase2' = enter
        /\ app_marked' = marks
        /\ buttons' = MarkAll(btns, marks)

\* No ProcessInfo::query has been made.
NoRecord == StatRecord(FALSE, FALSE, <<>>)
NoResult == [ok |-> FALSE, parent_id |-> None, error |-> "none"]
ResolverConstructed ==
    /\ stat_record = NoRecord
    /\ query_result = NoResult

\* run_event_loop (lines 106-117) is at event_stream.next(): each arm awaits
\* its handler to the end before the next event is taken.
AwaitsNextEventOrSuspended == TRUE
AwaitsNextEvent == hn_pc = "idle"

\* handle_notification up to its first suspension (lines 167-190).
NotificationBegin(n) ==
    /\ AwaitsNextEvent
    /\ notification' = Some(n)
    /\ UNCHANGED <<settings, display_filter, previous_snapshot, resolver_vars>>
    /\ UNCHANGED <<coord_vars, cache_vars, monitor_vars>>
    /\ IF ~IsSome(previous_snapshot)
       THEN /\ hn_pc' = "idle"
            /\ UNCHANGED buttons
            /\ process_id' = 0 /\ matched' = FALSE /\ pid_marked' = {}
            /\ app_marked' = {} /\ walked' = <<>> /\ walk_end' = "none"
            /\ phase2' = FALSE
       ELSE IF IsSome(get_process_id(n))
       THEN LET pid == Unwrap(get_process_id(n))
                marks == PidMatch(Unwrap(previous_snapshot), buttons, pid)
            IN  /\ hn_pc' = "query"
                /\ process_id' = pid
                /\ walked' = <<pid>>
                /\ pid_marked' = marks
                /\ matched' = (marks # {})
                /\ buttons' = MarkAll(buttons, marks)
                /\ app_marked' = {} /\ walk_end' = "none" /\ phase2' = FALSE
       ELSE /\ process_id' = 0
            /\ walked' = <<>>
            /\ FinishNotification("none", FALSE, {}, buttons)

\* ProcessInfo::query returns and the loop goes on or breaks (lines 190-203).
WalkStep(readable) ==
    /\ hn_pc = "query"
    /\ UNCHANGED <<settings, display_filter, previous_snapshot, notification,
                   resolver_vars>>
    /\ UNCHANGED <<coord_vars, cache_vars, monitor_vars>>
    /\ LET r == ProcessInfo_query(process_id, readable)
       IN  IF r.ok /\ IsSome(r.parent_id)
           THEN LET parent == Unwrap(r.parent_id)
                    marks == PidMatch(Unwrap(previous_snapshot), buttons, parent)
                IN  /\ process_id' = parent
                    /\ walked' = Append(walked, parent)
                    /\ pid_marked' = pid_marked \cup marks
                    /\ matched' = (matched \/ marks # {})
                    /\ buttons' = MarkAll(buttons, marks)
                    /\ UNCHANGED <<hn_pc, app_marked, walk_end, phase2>>
           ELSE /\ UNCHANGED <<process_id, walked>>
                /\ FinishNotification(IF r.ok THEN "root" ELSE "error",
                                      matched, pid_marked, buttons)

\* handle_window_update (lines 271-340); the consumer handles one event at a
\* time, so it runs only between two notifications.
HandleWindowUpdate(snapshot) ==
    /\ AwaitsNextEvent
    /\ buttons' = ButtonsAfterUpdate(buttons, snapshot, display_filter)
    /\ previous_snapshot' = Some(snapshot)
    /\ notification' = None
    /\ process_id' = 0 /\ matched' = FALSE /\ pid_marked' = {} /\ app_marked' = {}
    /\ walked' = <<>> /\ walk_end' = "none" /\ phase2' = FALSE
    /\ UNCHANGED <<settings, display_filter, hn_pc, resolver_vars>>
    /\ UNCHANGED <<coord_vars, cache_vars, monitor_vars>>

\* -------------------------------------------------- process-identity cache
\* The cache's time-to-live, Duration::from_secs(86400), in clock units of
\* half a TTL; the 60 s sweep timer fires many times per unit.
Ttl == 2

\* Bus names: two unique connection names and a name that is not unique.
Conn1 == <<":", "1">>
Conn2 == <<":", "2">>
ConnBad == <<"x">>
UniqueConns == {Conn1, Conn2}
QueryConns == {Conn1, Conn2, ConnBad}

\* UniqueName::try_from succeeds: a unique name starts with ':'.
IsUniqueName(connection) == Len(connection) > 0 /\ connection[1] = ":"

\* The pid the bus daemon knows for a connection (GetConnectionUnixProcessID).
connection_pid == [c \in UniqueConns |-> IF c = Conn1 THEN 3 ELSE 2]

\* What the daemon answers to GetConnectionUnixProcessID: the pid, the error
\* NameHasNoOwner (the connection is gone: definitely no pid), or the call
\* fails otherwise.
DaemonReplies == {"Ok", "NameHasNoOwner", "Failed"}

\* DBusProxy::get_connection_unix_process_id as the worker sees it:
\* Some(pid) is Ok(pid), None is any Err.
get_connection_unix_process_id(connection, reply) ==
    IF reply = "Ok" THEN Some(connection_pid[connection]) ELSE None

\* The record of a worker operation: what it was, on which identity, how it
\* ended, what the caller was answered, the daemon calls made, what an
\* ownership loss before it had found ("none" without such a loss), the
\* daemon's reply, the time, and the entries before it.
OpRecord(op, connection, outcome, value, lookups, after_loss, reply, at, before) ==
    [op |-> op, connection |-> connection, outcome |-> outcome, value |-> value,
     lookups |-> lookups, after_loss |-> after_loss, reply |-> reply,
     at |-> at, before |-> before]

NoOp == OpRecord("none", <<>>, "none", None, 0, "none", "none", 0, <<>>)

\* The new value of last_op and of evicted: recorded only when observed.
Recorded(rec) == IF "storage" \in observed THEN rec ELSE last_op
EvictedNext(set) == IF "storage" \in observed THEN set ELSE evicted

\* evicted without the identity, and what an ownership loss finds for it:
\* no entry, an entry that is due (expired, not yet swept), a live entry.
Unevicted(connection) == {e \in evicted : e.connection # connection}
LossFinds(es, connection, time) ==
    IF connection \notin DOMAIN es THEN "no_entry"
    ELSE IF es[connection].expires_at > time THEN "live_entry"
    ELSE "due_entry"
AfterLoss(connection) ==
    IF \E e \in evicted : e.connection = connection
    THEN (CHOOSE e \in evicted : e.connection = connection).found
    ELSE "none"

\* CacheStorage::new, and the worker and channel PidCache::create sets up.
CacheConstructed ==
    /\ entries = <<>>
    /\ now = 0
    /\ worker = "running"
    /\ request = None
    /\ lookup = None
    /\ qhist = None
    /\ last_query = None
    /\ last_op = NoOp
    /\ evicted = {}

\* CacheStorage::remove_expired
remove_expired_keeping_due(es, current_time) ==
    [c \in {d \in DOMAIN es : es[d].expires_at >= current_time} |-> es[c]]
remove_expired(es, current_time) ==
    [c \in {d \in DOMAIN es : es[d].expires_at > current_time} |-> es[c]]

\* CacheStorage::retrieve: the cached pid, with the entry's expiry extended.
retrieve_without_refresh(es, connection, time) ==
    IF connection \in DOMAIN es
    THEN [found |-> TRUE, pid |-> es[connection].pid, entries |-> es]
    ELSE [found |-> FALSE, pid |-> None, entries |-> es]
retrieve_unless_expired(es, connection, time) ==
    IF connection \in DOMAIN es /\ es[connection].expires_at > time
    THEN [found |-> TRUE, pid |-> es[connection].pid,
          entries |-> [es EXCEPT ![connection].expires_at = time + Ttl]]
    ELSE [found |-> FALSE, pid |-> None, entries |-> es]
retrieve_expiring_now(es, connection, time) ==
    IF connection \in DOMAIN es
    THEN [found |-> TRUE, pid |-> es[connection].pid,
          entries |-> [es EXCEPT ![connection].expires_at = time]]
    ELSE [found |-> FALSE, pid |-> None, entries |-> es]
retrieve(es, connection, time) ==
    IF connection \in DOMAIN es
    THEN [found |-> TRUE, pid |-> es[connection].pid,
          entries |-> [es EXCEPT ![connection].expires_at = time + Ttl]]
    ELSE [found |-> FALSE, pid |-> None, entries |-> es]

\* CacheStorage::store
store_already_expired(es, connection, pid, time) ==
    [c \in DOMAIN es \cup {connection} |->
        IF c = connection THEN [pid |-> pid, expires_at |-> time] ELSE es[c]]
store(es, connection, pid, time) ==
    [c \in DOMAIN es \cup {connection} |->
        IF c = connection THEN [pid |-> pid, expires_at |-> time + Ttl] ELSE es[c]]

\* `if let Ok(pid) = ..get_connection_unix_process_id(..).await { storage.store(..,
\* Some(pid)) }` (lines 134-136, 154-155): nothing is stored for an Err.
store_every_answer(es, connection, answer, time) == store(es, connection, answer, time)
store_if_ok(es, connection, answer, time) ==
    IF IsSome(answer) THEN store(es, connection, answer, time) ELSE es

\* CacheStorage::evict
evict_nothing(es, connection) == es
evict(es, connection) == [c \in DOMAIN es \ {connection} |-> es[c]]

\* PidCache::query returns value to its caller; lookups counts the daemon
\* calls made for it, served tells whether the worker handled the request.
QueryReturns(connection, value, lookups, served) ==
    /\ last_query' =
          Some([connection |-> connection, value |-> value,
                lookups |-> lookups, served |-> served,
                prev |-> IF IsSome(qhist) /\ Unwrap(qhist).connection = connection
                         THEN Some([value |-> Unwrap(qhist).value,
                                    gap |-> now - Unwrap(qhist).at,
                                    loss |-> Unwrap(qhist).loss])
                         ELSE None])
    /\ qhist' \in IF "queries" \in observed
                   THEN {qhist, Some([connection |-> connection, value |-> value,
                                      at |-> now, loss |-> FALSE])}
                   ELSE {qhist}

\* PidCache::query (lines 34-49): the request is sent; with the channel
\* closed the send fails and the answer is None.
Query(connection) ==
    /\ request = None
    /\ IF worker = "running"
       THEN /\ request' = Some(connection)
            /\ UNCHANGED <<qhist, last_query>>
       ELSE /\ UNCHANGED request
            /\ QueryReturns(connection, None, 0, FALSE)
    /\ UNCHANGED <<entries, now, worker, lookup, last_op, evicted, observed>>
    /\ UNCHANGED <<matcher_vars, coord_vars>>

\* cache_worker (lines 90-121) is at its select!: every arm awaits its
\* handler to the end, daemon call included, before the loop selects again.
WorkerAtSelectOrSuspended == TRUE
WorkerAtSelect == lookup = None

\* The daemon call an operation suspends on (lines 134, 154).
DaemonCall(op, connection) ==
    Some([op |-> op, connection |-> connection, before |-> entries])

\* handle_cache_request (lines 144-161) up to its answer or to the call of
\* get_connection_unix_process_id.  When nothing is sent on response, the
\* sender is dropped and the caller's unwrap_or(None) gives None.
handle_cache_request ==
    /\ worker = "running"
    /\ WorkerAtSelect
    /\ IsSome(request)
    /\ LET connection == Unwrap(request)
           cached == retrieve(entries, connection, now)
           after_loss == AfterLoss(connection)
       IN  IF cached.found
           THEN /\ entries' = cached.entries
                /\ QueryReturns(connection, cached.pid, 0, TRUE)
                /\ last_op' = Recorded(OpRecord("request", connection, "hit",
                                                cached.pid, 0, after_loss, "none",
                                                now, entries))
                /\ evicted' = EvictedNext(Unevicted(connection))
                /\ request' = None
                /\ UNCHANGED lookup
           ELSE IF IsUniqueName(connection)
           THEN /\ lookup' = DaemonCall("request", connection)
                /\ UNCHANGED <<entries, request, qhist, last_query, last_op, evicted>>
           ELSE /\ QueryReturns(connection, None, 0, TRUE)
                /\ last_op' = Recorded(OpRecord("request", connection, "not_unique",
                                                None, 0, after_loss, "none",
                                                now, entries))
                /\ evicted' = EvictedNext(Unevicted(connection))
                /\ request' = None
                /\ UNCHANGED <<entries, lookup>>
    /\ UNCHANGED <<now, worker, observed>>
    /\ UNCHANGED <<matcher_vars, coord_vars, monitor_vars>>

\* process_dbus_event (lines 126-142) for NameOwnerChanged(old_owner, new_owner),
\* up to its end or to the call of get_connection_unix_process_id.
process_dbus_event(old_owner, new_owner) ==
    /\ worker = "running"
    /\ WorkerAtSelect
    /\ IF IsSome(new_owner)
       THEN /\ lookup' = DaemonCall("gain", Unwrap(new_owner))
            /\ UNCHANGED <<entries, qhist, last_op, evicted>>
       ELSE IF IsSome(old_owner)
       THEN /\ entries' = evict(entries, Unwrap(old_owner))
            /\ last_op' = Recorded(OpRecord("loss", Unwrap(old_owner), "evicted",
                                            None, 0, "none", "none", now, entries))
            /\ evicted' = EvictedNext(
                    Unevicted(Unwrap(old_owner))
                        \cup {[connection |-> Unwrap(old_owner),
                                found |-> LossFinds(entries, Unwrap(old_owner), now)]})
            /\ qhist' = IF IsSome(qhist) /\ Unwrap(qhist).connection = Unwrap(old_owner)
                         THEN Some([Unwrap(qhist) EXCEPT !.loss = TRUE])
                         ELSE qhist
            /\ UNCHANGED lookup
       ELSE UNCHANGED <<entries, lookup, qhist, last_op, evicted>>
    /\ UNCHANGED <<now, worker, request, last_query, observed>>
    /\ UNCHANGED <<matcher_vars, coord_vars, monitor_vars>>

\* get_connection_unix_process_id returns reply to the suspended handler,
\* which runs to its end: process_dbus_event lines 134-136,
\* handle_cache_request lines 154-160.
LookupReturns(reply) ==
    /\ worker = "running"
    /\ IsSome(lookup)
    /\ LET op == Unwrap(lookup).op
           connection == Unwrap(lookup).connection
           before == Unwrap(lookup).before
           answer == get_connection_unix_process_id(connection, reply)
           outcome == IF IsSome(answer) THEN "stored" ELSE "failed"
       IN  /\ entries' = store_if_ok(entries, connection, answer, now)
           /\ IF op = "request"
              THEN /\ QueryReturns(connection, answer, 1, TRUE)
                   /\ last_op' = Recorded(OpRecord("request", connection, outcome,
                                                   answer, 1, AfterLoss(connection),
                                                   reply, now, before))
                   /\ evicted' = EvictedNext(Unevicted(connection))
                   /\ request' = None
              ELSE /\ last_op' = Recorded(OpRecord("gain", connection, outcome,
                                                   None, 1, "none", reply, now,
                                                   before))
                   /\ evicted' = EvictedNext(IF IsSome(answer)
                                              THEN Unevicted(connection)
                                              ELSE evicted)
                   /\ UNCHANGED <<request, qhist, last_query>>
    /\ lookup' = None
    /\ UNCHANGED <<now, worker, observed>>
    /\ UNCHANGED <<matcher_vars, coord_vars, monitor_vars>>

\* The cleanup_timer arm of cache_worker (lines 117-119).
Sweep ==
    /\ worker = "running"
    /\ WorkerAtSelect
    /\ entries' = remove_expired(entries, now)
    /\ last_op' = Recorded(OpRecord("sweep", <<>>, "none", None, 0, "none", "none",
                                    now, entries))
    /\ UNCHANGED <<now, worker, request, lookup, qhist, last_query, evicted, observed>>
    /\ UNCHANGED <<matcher_vars, coord_vars, monitor_vars>>

\* cache_worker ends (the bus event stream closes or fails, lines 97-105) and
\* its Receiver is dropped: the request channel is closed.  A request still in
\* the channel stays there, its response sender with it, for as long as the
\* PidCache holds the channel's Sender.
WorkerStops ==
    /\ worker = "running"
    /\ WorkerAtSelect
    /\ worker' = "stopped"
    /\ UNCHANGED <<entries, now, request, lookup, qhist, last_query, last_op, evicted,
                   observed>>
    /\ UNCHANGED <<matcher_vars, coord_vars, monitor_vars>>

\* Time passes.
Tick ==
    /\ now < MaxTime
    /\ now' = now + 1
    /\ UNCHANGED <<entries, worker, request, lookup, qhist, last_query, last_op,
                   evicted, observed>>
    /\ UNCHANGED <<matcher_vars, coord_vars, monitor_vars>>

\* ------------------------------------------------------------ coordinator
\* create_event_stream lines 48-52: the producer tasks spawned at once.
SpawnedAtCreationWithWorkspaces(cfg) ==
    (IF cfg.notifications_enabled THEN {"notifications"} ELSE {})
        \cup {"windows", "workspaces"}
SpawnedAtCreationWithNotifications(cfg) == {"notifications", "windows"}
SpawnedAtCreation(cfg) ==
    (IF cfg.notifications_enabled THEN {"notifications"} ELSE {}) \cup {"windows"}

\* Lines 58-62: the first event decides whether forward_workspace_changes is
\* spawned with the delayed (tx, stream) pair.
SpawnsWorkspaceForwarderOnAny(event) == TRUE
SpawnsWorkspaceForwarder(event) == event.kind = "Workspaces"

\* async_channel send on an unbounded channel: the item is queued last.
chan_send_first(chan, item) == <<item>> \o chan
chan_send(chan, item) == Append(chan, item)

\* The state create_event_stream returns with (lines 46-56).
CoordConstructed ==
    /\ tx_chan = <<>>
    /\ received = <<>>
    /\ workspace_stream_delay = TRUE
    /\ forwarders = SpawnedAtCreation(settings)
    /\ emitted = [notifications |-> 0, windows |-> 0, workspaces |-> 0]
    /\ ws_after_window = FALSE
    /\ rx_open = TRUE
    /\ failed_sends = [notifications |-> 0, windows |-> 0, workspaces |-> 0]
    /\ notif_chan = <<>>

\* run_monitor has become a monitor and awaits the first message (line 127).
MonitorConstructed ==
    /\ monitor = "running"
    /\ handling = None
    /\ bus_log = <<>>

\* ModuleInstance::create: no snapshot, no button, no notification handled.
MatcherConstructed ==
    /\ previous_snapshot = None
    /\ buttons = <<>>
    /\ hn_pc = "idle"
    /\ notification = None
    /\ process_id = 0
    /\ matched = FALSE
    /\ pid_marked = {}
    /\ app_marked = {}
    /\ walked = <<>>
    /\ walk_end = "none"
    /\ phase2 = FALSE
    /\ ResolverConstructed

\* `if let Err(e) = tx.send(event).await { tracing::error!(..) }` of the three
\* forwarders (lines 78-80, 86-88, 95-97): the event is queued while the
\* channel is open; on the closed channel the error is logged and the loop
\* goes on to the next item.
ForwarderSends(producer, event) ==
    IF rx_open
    THEN /\ tx_chan' = chan_send(tx_chan, event)
         /\ UNCHANGED failed_sends
    ELSE /\ UNCHANGED tx_chan
         /\ failed_sends' = [failed_sends EXCEPT ![producer] = @ + 1]

\* forward_notifications: the notification stream yields what run_monitor
\* sent and the item is sent on.
ForwardNotification ==
    /\ "notifications" \in forwarders
    /\ notif_chan # <<>>
    /\ notif_chan' = Tail(notif_chan)
    /\ ForwarderSends("notifications",
                      [kind |-> "Notification", seq |-> Head(notif_chan).seq,
                       process_id |-> Head(notif_chan).process_id])
    /\ UNCHANGED <<received, workspace_stream_delay, forwarders, emitted,
                   ws_after_window, rx_open>>
    /\ UNCHANGED <<matcher_vars, cache_vars, monitor_vars>>

\* forward_window_updates: the window stream yields a snapshot and it is sent.
ForwardWindowUpdate ==
    /\ "windows" \in forwarders
    /\ emitted.windows < MaxEvents
    /\ emitted' = [emitted EXCEPT !.windows = @ + 1]
    /\ ForwarderSends("windows", [kind |-> "WindowUpdate",
                                  seq |-> emitted.windows + 1,
                                  process_id |-> None])
    /\ UNCHANGED <<received, workspace_stream_delay, forwarders, ws_after_window,
                   rx_open, notif_chan>>
    /\ UNCHANGED <<matcher_vars, cache_vars, monitor_vars>>

\* The compositor's workspace stream: a change that no forwarder polls for is
\* lost (the stream is held unpolled in workspace_stream_delay, or dropped).
WorkspaceChangeLost(fwd) == "workspaces" \notin fwd

\* The workspace source signals a change; forward_workspace_changes, when it
\* runs, sends Workspaces(()) for it.
WorkspaceChange ==
    /\ emitted.workspaces < MaxEvents
    /\ emitted' = [emitted EXCEPT !.workspaces = @ + 1]
    /\ ws_after_window' =
          (ws_after_window \/ \E i \in DOMAIN received : received[i].kind = "WindowUpdate")
    /\ IF WorkspaceChangeLost(forwarders)
       THEN UNCHANGED <<tx_chan, failed_sends>>
       ELSE ForwarderSends("workspaces", [kind |-> "Workspaces",
                                          seq |-> emitted.workspaces + 1,
                                          process_id |-> None])
    /\ UNCHANGED <<received, workspace_stream_delay, forwarders, rx_open, notif_chan>>
    /\ UNCHANGED <<matcher_vars, cache_vars, monitor_vars>>

\* One turn of the stream of create_event_stream (lines 57-64): receive,
\* resolve the delayed workspace subscription, yield.
StreamNext ==
    /\ rx_open
    /\ tx_chan # <<>>
    /\ LET event == Head(tx_chan)
       IN  /\ tx_chan' = Tail(tx_chan)
           /\ workspace_stream_delay' = FALSE
           /\ forwarders' =
                 IF workspace_stream_delay /\ SpawnsWorkspaceForwarder(event)
                 THEN forwarders \cup {"workspaces"}
                 ELSE forwarders
           /\ received' = Append(received, event)
    /\ UNCHANGED <<emitted, ws_after_window, rx_open, failed_sends, notif_chan>>
    /\ UNCHANGED <<matcher_vars, cache_vars, monitor_vars>>

\* The consumer is dropped: the stream and its rx go, the channel is closed
\* and what is queued in it is never received.
ConsumerDrops ==
    /\ rx_open
    /\ rx_open' = FALSE
    /\ UNCHANGED <<tx_chan, received, workspace_stream_delay, forwarders, emitted,
                   ws_after_window, failed_sends, notif_chan>>
    /\ UNCHANGED <<matcher_vars, cache_vars, monitor_vars>>

\* ------------------------------------------------------ notification monitor
\* What the monitor's message stream yields: a Notify call with a body that
\* decodes, a Notify call with a body that does not, another message; and how
\* the stream ends: with an error or closed.
MsgKinds == {"Notify", "NotifyMalformed", "Other"}
StreamEnds == {"StreamError", "StreamClosed"}

\* msg.header().sender()
Senders == {None, Some(Conn1)}

\* Lines 141-142: the message is a call of org.freedesktop.Notifications.Notify.
IsNotify(kind) == kind \in {"Notify", "NotifyMalformed"}

\* msg.body().deserialize() (line 151) succeeds.
deserialize_ok(kind) == kind = "Notify"

\* Lines 128-130: whatever handle_message returns, the loop goes on; an Err
\* is logged.
AfterHandleMessageReturning(result) == IF result = "Err" THEN "stopped" ELSE "running"
AfterHandleMessage(result) == "running"

\* The end of handle_message (lines 150-157) with the resolved process_id:
\* the body is decoded and the NotificationData sent, or the decoding error
\* is returned.
FinishMessage(kind, pid) ==
    LET result == IF deserialize_ok(kind) THEN "Ok" ELSE "Err"
    IN  /\ handling' = None
        /\ monitor' = AfterHandleMessage(result)
        /\ IF result = "Ok"
           THEN /\ notif_chan' = chan_send(notif_chan,
                                           [seq |-> emitted.notifications + 1,
                                            process_id |-> pid])
                /\ emitted' = [emitted EXCEPT !.notifications = @ + 1]
           ELSE UNCHANGED <<notif_chan, emitted>>

\* The message stream yields a message (line 127) and handle_message runs to
\* its first suspension: the cache query for the sender (lines 141-148).
MonitorReceive(kind, sender) ==
    /\ "notifications" \in forwarders
    /\ monitor = "running"
    /\ handling = None
    /\ Len(bus_log) < MaxEvents
    /\ bus_log' = Append(bus_log, kind)
    /\ IF ~IsNotify(kind)
       THEN UNCHANGED <<monitor, handling, coord_vars, matcher_vars, cache_vars>>
       ELSE IF IsSome(sender)
       THEN /\ Query(Unwrap(sender))
            /\ handling' = Some([kind |-> kind])
            /\ UNCHANGED monitor
       ELSE /\ FinishMessage(kind, None)
            /\ UNCHANGED <<coord_rest, matcher_vars, cache_vars>>

\* PidCache::query has returned (the worker answered, dropped the response
\* or is gone) and handle_message goes on from line 150.
MonitorResume ==
    /\ IsSome(handling)
    /\ request = None
    /\ FinishMessage(Unwrap(handling).kind, Unwrap(last_query).value)
    /\ UNCHANGED bus_log
    /\ UNCHANGED <<coord_rest, matcher_vars, cache_vars>>

\* message_stream.try_next() gives an Err (returned by `?`) or None (the loop
\* ends): run_monitor returns (lines 127, 133).
MonitorStreamEnds(how) ==
    /\ "notifications" \in forwarders
    /\ monitor = "running"
    /\ handling = None
    /\ Len(bus_log) < MaxEvents
    /\ bus_log' = Append(bus_log, how)
    /\ monitor' = "stopped"
    /\ UNCHANGED handling
    /\ UNCHANGED <<coord_vars, matcher_vars, cache_vars>>

\* A message for the monitor arrives on the bus after run_monitor returned:
\* nothing reads it.
BusMessageUnread(kind) ==
    /\ monitor = "stopped"
    /\ Len(bus_log) < MaxEvents
    /\ bus_log' = Append(bus_log, kind)
    /\ UNCHANGED <<monitor, handling>>
    /\ UNCHANGED <<coord_vars, matcher_vars, cache_vars>>

\* ---------------------------------------------------- coordinator specification
CoordInit ==
    /\ settings \in {s \in SettingsDomain :
                        /\ s.notifications_use_desktop_entry
                        /\ s.notifications_use_fuzzy_matching}
    /\ display_filter = None
    /\ MatcherConstructed
    /\ CoordConstructed
    /\ CacheConstructed
    /\ observed = {}
    /\ MonitorConstructed

CoordMonitorReceive ==
    \E kind \in MsgKinds, sender \in Senders : MonitorReceive(kind, sender)
CoordMonitorStreamEnds == \E how \in StreamEnds : MonitorStreamEnds(how)
CoordBusMessageUnread == \E kind \in MsgKinds : BusMessageUnread(kind)
CoordLookupReturns == \E reply \in DaemonReplies : LookupReturns(reply)

\* The cache worker serves the monitor's queries or stops; its sweeps and the
\* ownership changes are the subject of StoreSpec.
CoordNext ==
    \/ CoordMonitorReceive
    \/ MonitorResume
    \/ CoordMonitorStreamEnds
    \/ CoordBusMessageUnread
    \/ handle_cache_request
    \/ CoordLookupReturns
    \/ WorkerStops
    \/ ForwardNotification
    \/ ForwardWindowUpdate
    \/ WorkspaceChange
    \/ StreamNext
    \/ ConsumerDrops

CoordSpec == CoordInit /\ [][CoordNext]_vars

\* ------------------------------------------------- coordinator properties
\* C1 (deferred workspace subscription): when a workspace change is signalled
\* after a WindowUpdate was delivered to the consumer, a WorkspacesChanged
\* event is delivered: at the latest once the consumer, still there, has
\* drained the channel it has received one.
C1_WorkspaceChangeDelivered ==
    (ws_after_window /\ rx_open /\ tx_chan = <<>>)
        => \E i \in DOMAIN received : received[i].kind = "Workspaces"

\* C2 (no early workspace event): the consumer never receives a
\* WorkspacesChanged event before an event of another kind, and while the
\* workspace forwarder is not running no workspace change is sent or delivered.
C2_NoWorkspacesBeforeOtherKind ==
    /\ \A i \in DOMAIN received :
          received[i].kind = "Workspaces"
              => \E j \in 1..(i - 1) : received[j].kind # "Workspaces"
    /\ "workspaces" \notin forwarders =>
          /\ \A i \in DOMAIN received : received[i].kind # "Workspaces"
          /\ \A i \in DOMAIN tx_chan : tx_chan[i].kind # "Workspaces"

\* C2 witness: a workspace change was signalled before the consumer received
\* its first event, and the consumer has since received every event sent.
C2_Witness ==
    /\ emitted.workspaces > 0
    /\ ~ws_after_window
    /\ received # <<>>
    /\ tx_chan = <<>>

\* C17 (graceful shutdown): once the consumer is dropped, a producer task
\* stops at its first failed send: no forwarder tries a second send on the
\* closed channel.
C17_ProducersStopAtFirstFailedSend ==
    \A producer \in DOMAIN failed_sends : failed_sends[producer] <= 1

\* The events of one kind in a sequence of events, and their numbers.
OfKind(events, kind) == SelectSeq(events, LAMBDA e : e.kind = kind)
SeqNumbers(events) == [i \in DOMAIN events |-> events[i].seq]
FromTo(a, b) == [i \in 1..(b - a + 1) |-> a + i - 1]

\* The kind of event each source's items become.
KindOf == [notifications |-> "Notification", windows |-> "WindowUpdate",
           workspaces |-> "Workspaces"]

\* C18 (per-producer order): the events of one producer the consumer has
\* received are the first events that producer sent, in the order sent, each
\* once; and while the consumer is there the notifications and the window
\* snapshots sent and not yet received wait in the channels in that order.
C18_PerProducerOrder ==
    \A producer \in DOMAIN KindOf :
        LET got == SeqNumbers(OfKind(received, KindOf[producer]))
            queued == SeqNumbers(OfKind(tx_chan, KindOf[producer]))
            waiting == IF producer = "notifications"
                       THEN queued \o SeqNumbers(notif_chan) ELSE queued
        IN  /\ Len(got) <= emitted[producer]
            /\ got = FromTo(1, Len(got))
            /\ (rx_open /\ producer # "workspaces") =>
                  got \o waiting = FromTo(1, emitted[producer])

\* C18 witness: the consumer has received two notifications and two window
\* snapshots, interleaved.
C18_Witness ==
    /\ Len(OfKind(received, "Notification")) = 2
    /\ Len(OfKind(received, "WindowUpdate")) = 2
    /\ received[1].kind # received[2].kind
    /\ received[2].kind # received[3].kind

\* The number of messages of a kind among the first n the stream yielded.
RECURSIVE CountKind(_, _, _)
CountKind(log, n, kind) ==
    IF n = 0 THEN 0
    ELSE CountKind(log, n - 1, kind) + (IF log[n] = kind THEN 1 ELSE 0)

\* C19 (malformed payload): a Notify message whose body cannot be decoded
\* produces no notification and does not stop the monitor: the monitor runs
\* until its message stream ends, and the notifications it has emitted are
\* as many as the well-formed Notify messages it has handled to the end.
C19_MalformedDroppedMonitorGoesOn ==
    /\ monitor = "stopped" => \E i \in DOMAIN bus_log : bus_log[i] \in StreamEnds
    /\ (\A i \in DOMAIN bus_log : bus_log[i] \notin StreamEnds) =>
          emitted.notifications
              + (IF IsSome(handling) /\ Unwrap(handling).kind = "Notify" THEN 1 ELSE 0)
            = CountKind(bus_log, Len(bus_log), "Notify")

\* C19 witness: a malformed Notify message, then a well-formed one that has
\* reached the consumer as a notification.
C19_Witness ==
    /\ bus_log = <<"NotifyMalformed", "Notify">>
    /\ handling = None
    /\ emitted.notifications = 1
    /\ \E i \in DOMAIN received : received[i].kind = "Notification"

\* C20 (no failure is fatal): whatever failed before (a pid lookup, a
\* payload, the reading of the message stream, the cache worker), every
\* well-formed Notify message that has arrived is delivered to the consumer:
\* once the monitor is not handling a message and the channels are drained,
\* the consumer, still there, has received a notification for each of them.
\* The bus closing the monitor's stream is not among the failures.
C20_EveryNotificationDelivered ==
    (/\ "notifications" \in forwarders
     /\ rx_open
     /\ \A i \in DOMAIN bus_log : bus_log[i] # "StreamClosed"
     /\ handling = None
     /\ notif_chan = <<>>
     /\ tx_chan = <<>>)
    => Len(OfKind(received, "Notification")) = CountKind(bus_log, Len(bus_log), "Notify")

\* C29 (notifications disabled): with the notification-enabled flag false no
\* notification producer runs, the monitor reads no bus message, no
\* Notification event is sent or received, and the window updates are
\* delivered: once the consumer, still there, has drained the channel it has
\* received every window update emitted.
C29_DisabledMeansNoNotifications ==
    ~settings.notifications_enabled =>
        /\ "notifications" \notin forwarders
        /\ "windows" \in forwarders
        /\ bus_log = <<>> /\ handling = None
        /\ notif_chan = <<>> /\ emitted.notifications = 0
        /\ OfKind(tx_chan, "Notification") = <<>>
        /\ OfKind(received, "Notification") = <<>>
        /\ (rx_open /\ tx_chan = <<>>) =>
              Len(OfKind(received, "WindowUpdate")) = emitted.windows

\* C29 witness: notifications are disabled and the consumer has received two
\* window updates.
C29_Witness ==
    /\ ~settings.notifications_enabled
    /\ Len(OfKind(received, "WindowUpdate")) >= 2

\* C34 (the deferred subscription is resolved once): the subscription is
\* pending exactly until the stream has received its first event; on that
\* event the workspace forwarder is started if and only if the event is a
\* workspace change, and the pending subscription is gone either way; no
\* later event starts a forwarder, and the subscription never becomes pending
\* again.
C34_DeferredSubscriptionResolvedOnce ==
    /\ [](workspace_stream_delay <=> received = <<>>)
    /\ [][/\ workspace_stream_delay' => workspace_stream_delay
          /\ (received = <<>> /\ received' # <<>>) =>
                /\ ~workspace_stream_delay'
                /\ "workspaces" \in forwarders' <=> received'[1].kind = "Workspaces"
          /\ received # <<>> => forwarders' = forwarders]_vars

\* C34 witness: the first event received was a window update, the pending
\* subscription was discarded with it, and a workspace change signalled
\* afterwards found no forwarder while the stream went on receiving.
C34_Witness ==
    /\ Len(received) >= 2
    /\ received[1].kind = "WindowUpdate"
    /\ ~workspace_stream_delay
    /\ "workspaces" \notin forwarders
    /\ ws_after_window

\* ------------------------------------------------------ cache specification
CacheInit ==
    /\ settings \in {s \in SettingsDomain :
                        /\ s.notifications_enabled
                        /\ s.notifications_use_desktop_entry
                        /\ s.notifications_use_fuzzy_matching}
    /\ display_filter = None
    /\ MatcherConstructed
    /\ CoordConstructed
    /\ CacheConstructed
    /\ observed = {"queries"}
    /\ MonitorConstructed

CacheQuery == (\E c \in QueryConns : Query(c)) /\ UNCHANGED monitor_vars
CacheLookupReturns == \E reply \in DaemonReplies : LookupReturns(reply)
CacheDbusEvent ==
    \E old \in {None} \cup {Some(c) : c \in UniqueConns},
       new \in {None} \cup {Some(c) : c \in UniqueConns} :
        process_dbus_event(old, new)

CacheNext ==
    \/ CacheQuery
    \/ handle_cache_request
    \/ CacheDbusEvent
    \/ CacheLookupReturns
    \/ Sweep
    \/ WorkerStops
    \/ Tick

CacheSpec == CacheInit /\ [][CacheNext]_vars

\* --------------------------------------------------------- cache properties
\* The identity of the last query was queried before, less than a TTL ago,
\* and no ownership loss for it was processed in between.
RepeatedWithinTtl ==
    /\ IsSome(last_query)
    /\ IsSome(Unwrap(last_query).prev)
    /\ Unwrap(Unwrap(last_query).prev).gap < Ttl
    /\ ~Unwrap(Unwrap(last_query).prev).loss

\* C10 as claimed (cache hit): the second of two queries for one identity
\* within the TTL, with no ownership loss in between, returns what the first
\* returned and makes no daemon lookup.
C10_SecondQuerySameNoLookup ==
    RepeatedWithinTtl =>
        /\ Unwrap(last_query).value = Unwrap(Unwrap(last_query).prev).value
        /\ Unwrap(last_query).lookups = 0

\* C10 as amended: when the first query returned a pid (so the identity was
\* cached) and the worker is still running to serve the second, the second
\* returns the same pid and makes no daemon lookup.
C10_SecondQueryHitsCache ==
    (/\ RepeatedWithinTtl
     /\ IsSome(Unwrap(Unwrap(last_query).prev).value)
     /\ Unwrap(last_query).served)
    => /\ Unwrap(last_query).value = Unwrap(Unwrap(last_query).prev).value
       /\ Unwrap(last_query).lookups = 0

\* C10 witness: a second query, served by the worker later than the first
\* but within the TTL, returned the first's pid.
C10_Witness ==
    /\ RepeatedWithinTtl
    /\ Unwrap(last_query).served
    /\ IsSome(Unwrap(last_query).value)
    /\ Unwrap(last_query).value = Unwrap(Unwrap(last_query).prev).value
    /\ Unwrap(Unwrap(last_query).prev).gap > 0

\* ------------------------------------------------------- query specification
\* The cache with its scheduling: the executor runs the worker when it can go
\* on.  select! takes a ready arm at random, so a request that is ready again
\* and again is taken at last; a daemon call returns.
QueryInit ==
    /\ settings \in {s \in SettingsDomain :
                        /\ s.notifications_enabled
                        /\ s.notifications_use_desktop_entry
                        /\ s.notifications_use_fuzzy_matching}
    /\ display_filter = None
    /\ MatcherConstructed
    /\ CoordConstructed
    /\ CacheConstructed
    /\ observed = {}
    /\ MonitorConstructed

QuerySpec ==
    /\ QueryInit
    /\ [][CacheNext]_vars
    /\ SF_vars(handle_cache_request)
    /\ WF_vars(CacheLookupReturns)

\* ---------------------------------------------------------- query properties
\* C30 (every query returns): a query that has been sent is answered -- its
\* request does not stay unanswered for ever -- provided the daemon calls
\* return.
C30_EveryQueryReturns == IsSome(request) ~> (request = None)

\* ---------------------------------------------------- storage specification
\* The cache with the worker's operations on the storage recorded.
StoreInit ==
    /\ settings \in {s \in SettingsDomain :
                        /\ s.notifications_enabled
                        /\ s.notifications_use_desktop_entry
                        /\ s.notifications_use_fuzzy_matching}
    /\ display_filter = None
    /\ MatcherConstructed
    /\ CoordConstructed
    /\ CacheConstructed
    /\ observed = {"storage"}
    /\ MonitorConstructed

StoreSpec == StoreInit /\ [][CacheNext]_vars

\* ------------------------------------------------------- storage properties
\* C11 (ownership-loss invalidation): after the worker has processed an
\* ownership change with old owner X and no new owner, the cache holds no
\* entry for X, whatever TTL the entry had left, and a query for X the worker
\* handles next, X not having been stored again, makes a daemon lookup.
C11_OwnershipLossInvalidates ==
    /\ \A e \in evicted : e.connection \notin DOMAIN entries
    /\ last_op.op = "loss" => last_op.connection \notin DOMAIN entries
    /\ (last_op.op = "request" /\ last_op.after_loss # "none")
          => /\ last_op.connection \notin DOMAIN last_op.before
             /\ last_op.lookups = 1

\* C11 witness: the worker has answered a query for an identity whose live
\* entry an ownership loss had evicted, from a fresh daemon lookup.
C11_Witness ==
    /\ last_op.op = "request"
    /\ last_op.after_loss = "live_entry"
    /\ last_op.outcome = "stored"
    /\ last_op.lookups = 1

\* C12 (TTL purge): a sweep removes exactly the entries whose expiry time is
\* not in the future: an entry left alone for a full TTL is gone after the
\* first sweep at or after its expiry, and an entry whose expiry is still in
\* the future is kept as it was.
C12_SweepRemovesExactlyExpired ==
    last_op.op = "sweep" =>
        /\ \A c \in DOMAIN last_op.before :
              c \in DOMAIN entries <=> last_op.before[c].expires_at > last_op.at
        /\ \A c \in DOMAIN entries :
              c \in DOMAIN last_op.before /\ entries[c] = last_op.before[c]

\* C12 witness: a sweep at the very expiry time of one entry removed it and
\* kept another entry that expires later.
C12_Witness ==
    /\ last_op.op = "sweep"
    /\ \E c \in DOMAIN last_op.before :
          /\ last_op.before[c].expires_at = last_op.at
          /\ c \notin DOMAIN entries
    /\ \E c \in DOMAIN entries : entries[c].expires_at > last_op.at

\* C13 (lookup failure): when a query misses the cache and the daemon lookup
\* fails, the caller of PidCache::query receives None and the cache map is
\* exactly what it was before the query.
C13_FailedLookupReturnsNoneStoresNothing ==
    (last_op.op = "request" /\ last_op.outcome = "failed") =>
        /\ last_op.connection \notin DOMAIN last_op.before
        /\ last_op.value = None
        /\ worker = "running" =>
              /\ Unwrap(last_query).connection = last_op.connection
              /\ Unwrap(last_query).value = None
        /\ entries = last_op.before

\* C13 witness: a query for an identity that is not cached, while another
\* identity is, was answered None after a failed daemon call.
C13_Witness ==
    /\ last_op.op = "request"
    /\ last_op.outcome = "failed"
    /\ last_op.reply = "Failed"
    /\ last_op.before # <<>>
    /\ IsSome(last_query)
    /\ Unwrap(last_query).served
    /\ Unwrap(last_query).value = None

\* C14 (negative caching): after a miss that the daemon answers with a
\* definitive "no pid" (NameHasNoOwner), the cache holds an entry for the
\* identity with pid unknown and expiry now + TTL, which answers a repeated
\* query without another daemon call.
C14_NoPidAnswerCached ==
    (last_op.op = "request" /\ last_op.reply = "NameHasNoOwner") =>
        /\ last_op.connection \in DOMAIN entries
        /\ entries[last_op.connection] =
              [pid |-> None, expires_at |-> last_op.at + Ttl]

\* C15 (proactive caching): after an ownership change naming a new owner N
\* whose daemon lookup gives pid p, the cache holds N -> p with expiry
\* now + TTL and its other entries as before; after a failed lookup the cache
\* is unchanged; and a query for an identity the cache holds is a hit,
\* answered with the cached pid without a daemon call.
C15_NewOwnerCachedProactively ==
    /\ (last_op.op = "gain" /\ last_op.reply = "Ok") =>
          /\ last_op.connection \in DOMAIN entries
          /\ entries[last_op.connection] =
                [pid |-> Some(connection_pid[last_op.connection]),
                 expires_at |-> last_op.at + Ttl]
          /\ DOMAIN entries = DOMAIN last_op.before \cup {last_op.connection}
          /\ \A c \in DOMAIN entries \ {last_op.connection} :
                entries[c] = last_op.before[c]
    /\ (last_op.op = "gain" /\ last_op.reply # "Ok") => entries = last_op.before
    /\ (last_op.op = "request" /\ last_op.connection \in DOMAIN last_op.before) =>
          /\ last_op.outcome = "hit"
          /\ last_op.lookups = 0
          /\ last_op.value = last_op.before[last_op.connection].pid

\* C15 witness: the worker has cached the new owner of a name, an identity the
\* cache did not hold, and a query for that identity waits in the channel.
C15_Witness ==
    /\ last_op.op = "gain"
    /\ last_op.outcome = "stored"
    /\ last_op.connection \notin DOMAIN last_op.before
    /\ last_op.connection \in DOMAIN entries
    /\ request = Some(last_op.connection)

C33_ExpiredEntryRevived ==
    (/\ last_op.op = "request"
     /\ last_op.connection \in DOMAIN last_op.before
     /\ last_op.before[last_op.connection].expires_at <= last_op.at)
    => /\ last_op.outcome = "hit"
       /\ last_op.lookups = 0
       /\ last_op.value = last_op.before[last_op.connection].pid
       /\ worker = "running" =>
             /\ IsSome(last_query)
             /\ Unwrap(last_query).connection = last_op.connection
             /\ Unwrap(last_query).value = last_op.value
             /\ Unwrap(last_query).lookups = 0
       /\ last_op.connection \in DOMAIN entries
       /\ entries[last_op.connection] =
             [pid |-> last_op.value, expires_at |-> last_op.at + Ttl]

\* C33 witness: a query was answered from an entry whose expiry had passed,
\* and the entry expires a TTL after the query.
C33_Witness ==
    /\ last_op.op = "request"
    /\ last_op.outcome = "hit"
    /\ last_op.before[last_op.connection].expires_at < last_op.at
    /\ IsSome(last_op.value)
    /\ entries[last_op.connection].expires_at = last_op.at + Ttl

\* C21 (single-writer serialisation): while the worker is suspended on the
\* daemon lookup of one operation, no other operation is applied to the map:
\* the entries and the record of the last operation stay as they are until the
\* lookup returns, and what completes then is the suspended operation itself,
\* on the entries it left.  The map changes only in a step of the worker.
C21_WorkerSerialises ==
    [][/\ IsSome(lookup) =>
            IF lookup' = lookup
            THEN entries' = entries /\ last_op' = last_op
            ELSE /\ lookup' = None
                 /\ last_op'.op = Unwrap(lookup).op
                 /\ last_op'.connection = Unwrap(lookup).connection
                 /\ last_op'.before = entries
                 /\ Unwrap(lookup).before = entries
       /\ entries' # entries => (worker = "running" /\ last_op' # last_op)]_vars

\* C21 witness: the worker is suspended on the lookup for a new owner while a
\* query is queued and an entry is due for the sweep.
C21_Witness ==
    /\ IsSome(lookup)
    /\ Unwrap(lookup).op = "gain"
    /\ IsSome(request)
    /\ \E c \in DOMAIN entries : entries[c].expires_at <= now

\* ------------------------------------------------------- matcher specification
\* The consumer has handled the window updates so far and no notification
\* since: previous_snapshot is None (no update yet) or any snapshot, and
\* buttons is what handle_window_update leaves for it.  The display filter is
\* Only("o1"); ShowAll shows what Only("o1") shows when every window is on o1.
MatchInit ==
    /\ settings \in {s \in SettingsDomain : s.notifications_enabled}
    /\ display_filter = Some("o1")
    /\ previous_snapshot \in {None} \cup {Some(s) : s \in Snapshots}
    /\ buttons = IF IsSome(previous_snapshot)
                 THEN ButtonsAfterUpdate(<<>>, Unwrap(previous_snapshot), display_filter)
                 ELSE <<>>
    /\ hn_pc = "idle"
    /\ notification = None
    /\ process_id = 0
    /\ matched = FALSE
    /\ pid_marked = {}
    /\ app_marked = {}
    /\ walked = <<>>
    /\ walk_end = "none"
    /\ phase2 = FALSE
    /\ ResolverConstructed
    /\ CoordConstructed
    /\ CacheConstructed
    /\ observed = {}
    /\ MonitorConstructed

MatchNotificationBegin == \E n \in NotificationDatas : NotificationBegin(n)
MatchWalkStep == \E readable \in BOOLEAN : WalkStep(readable)

MatchNext ==
    \/ MatchNotificationBegin
    \/ MatchWalkStep

MatchSpec == MatchInit /\ [][MatchNext]_vars

\* ------------------------------------------------------ matcher properties
\* A notification has been handled against a snapshot and the consumer is idle.
Handled == hn_pc = "idle" /\ IsSome(notification) /\ IsSome(previous_snapshot)
HandledWindows == Unwrap(previous_snapshot)
HandledNotification == Unwrap(notification)

\* The windows of the handled snapshot that have a button.
HasButton(w) == w.id \in DOMAIN buttons
WindowOf(id) ==
    HandledWindows[CHOOSE k \in DOMAIN HandledWindows : HandledWindows[k].id = id]

\* The desktop entry after remapping, as the configuration defines it.
RemappedEntry(n) ==
    IF Unwrap(n.desktop_entry) \in DOMAIN map_app_ids
    THEN map_app_ids[Unwrap(n.desktop_entry)]
    ELSE Unwrap(n.desktop_entry)

\* App-identifier matching ran over the snapshot for the handled notification.
AppMatchingRan ==
    /\ Handled
    /\ phase2
    /\ settings.notifications_use_desktop_entry
    /\ IsSome(HandledNotification.desktop_entry)

ExactWindows ==
    {k \in DOMAIN HandledWindows :
        HandledWindows[k].app_id = Some(RemappedEntry(HandledNotification))}

\* The parent chain of p according to the process records (p first).
RECURSIVE ParentChain(_)
ParentChain(p) ==
    IF proc_stat_ppid[p] = 0 THEN <<p>> ELSE <<p>> \o ParentChain(proc_stat_ppid[p])

Range(s) == {s[k] : k \in DOMAIN s}

\* C3 (direct match): every non-focused window whose pid is the pid the
\* notification is matched by is marked urgent, also when several windows of
\* the snapshot share that pid.  Stated for the windows that have a button,
\* the only ones a mark can be put on.
C3_DirectMatchMarksEveryWindow ==
    (Handled /\ walked # <<>>) =>
        \A k \in DOMAIN HandledWindows :
            LET w == HandledWindows[k]
            IN  (w.pid = Some(walked[1]) /\ ~w.is_focused /\ HasButton(w))
                    => w.id \in pid_marked

\* The nearest pid above the start of the walk that is the pid of a
\* non-focused window with a button; 0 when there is none.
NearestOwnerPid(start) ==
    LET chain == ParentChain(start)
        owned == {i \in 2..Len(chain) :
                    \E k \in DOMAIN HandledWindows :
                        LET w == HandledWindows[k]
                        IN  w.pid = Some(chain[i]) /\ ~w.is_focused /\ HasButton(w)}
    IN  IF owned = {} THEN 0
        ELSE chain[CHOOSE i \in owned : \A j \in owned : i <= j]

\* C4 (chain walk): when no window has the notification's pid, the pid
\* descends from the pid of a non-focused window and every record up to that
\* ancestor was read, a non-focused window owning the nearest such ancestor
\* pid is marked urgent.
C4_ChainWalkMarksAncestorWindow ==
    (/\ Handled
     /\ walked # <<>>
     /\ walked[1] \in Pids
     /\ \A k \in DOMAIN HandledWindows : HandledWindows[k].pid # Some(walked[1])
     /\ NearestOwnerPid(walked[1]) \in Range(walked))
    => \E k \in DOMAIN HandledWindows :
          LET w == HandledWindows[k]
          IN  /\ w.pid = Some(NearestOwnerPid(walked[1]))
              /\ ~w.is_focused
              /\ w.id \in pid_marked

\* C5 as claimed (short circuit): when a non-focused window has the pid of
\* the notification or of a walked ancestor, no window is marked by its app
\* identifier.
C5_ShortCircuitOnAnyPidWindow ==
    (/\ Handled
     /\ \E k \in DOMAIN HandledWindows :
           /\ ~HandledWindows[k].is_focused
           /\ \E p \in Range(walked) : HandledWindows[k].pid = Some(p))
    => (app_marked = {} /\ ~phase2)

\* C5 as amended (short circuit): when PID-chain matching marks at least one
\* window, app-identifier matching is not entered and marks nothing, whatever
\* the desktop-entry hint and the flags are.
C5_ShortCircuitWhenPidMarked ==
    (Handled /\ \E i \in DOMAIN buttons : i \in pid_marked)
        => (app_marked = {} /\ ~phase2)

\* C5 witness: PID matching marked a window while an unmarked window with a
\* button carries exactly the desktop entry and desktop-entry matching is on.
C5_Witness ==
    /\ Handled
    /\ pid_marked # {}
    /\ settings.notifications_use_desktop_entry
    /\ IsSome(HandledNotification.desktop_entry)
    /\ \E k \in ExactWindows :
          HasButton(HandledWindows[k]) /\ HandledWindows[k].id \notin pid_marked

\* C6 as claimed (exact beats fuzzy): when some window's app_id equals the
\* remapped entry, app-identifier matching marks exactly the exact matches.
C6_ExactMatchesMarkedOnly ==
    (AppMatchingRan /\ ExactWindows # {})
        => app_marked = {HandledWindows[k].id : k \in ExactWindows}

\* C6 as amended: when some window with a button has an app_id equal to the
\* remapped entry, app-identifier matching marks exactly the exact matches
\* that have a button and no fuzzy candidate, fuzzy matching enabled or not.
C6_ExactWithButtonMarkedOnly ==
    (AppMatchingRan /\ \E k \in ExactWindows : HasButton(HandledWindows[k]))
        => app_marked =
              {HandledWindows[k].id :
                  k \in {j \in ExactWindows : HasButton(HandledWindows[j])}}

\* C6 witness: an exact match and a case-insensitive or final-segment match,
\* both with a button, fuzzy matching enabled.
C6_Witness ==
    /\ AppMatchingRan
    /\ settings.notifications_use_fuzzy_matching
    /\ \E k \in ExactWindows : HasButton(HandledWindows[k])
    /\ \E k \in DOMAIN HandledWindows :
          LET w == HandledWindows[k]
          IN  /\ HasButton(w)
              /\ IsSome(w.app_id)
              /\ k \notin ExactWindows
              /\ to_lowercase(split_next_back(Unwrap(w.app_id)))
                    = to_lowercase(split_next_back(RemappedEntry(HandledNotification)))

\* The ids app-identifier matching marked that are not exact matches.
FuzzyMarkedIds ==
    {i \in app_marked : WindowOf(i).app_id # Some(RemappedEntry(HandledNotification))}

\* C7 as claimed: fuzzy candidates are marked only with fuzzy matching
\* enabled and no window matching exactly; with fuzzy matching disabled and
\* no exact match nothing is marked.
C7_FuzzyOnlyWithoutExactWindow ==
    AppMatchingRan =>
        /\ FuzzyMarkedIds # {} =>
              (settings.notifications_use_fuzzy_matching /\ ExactWindows = {})
        /\ (~settings.notifications_use_fuzzy_matching /\ ExactWindows = {})
              => app_marked = {}

\* C7 as amended: fuzzy candidates are marked only with fuzzy matching
\* enabled and no window that has a button matching exactly; with fuzzy
\* matching disabled and no exact match nothing is marked.
C7_FuzzyOnlyWithoutExactButton ==
    AppMatchingRan =>
        /\ FuzzyMarkedIds # {} =>
              /\ settings.notifications_use_fuzzy_matching
              /\ \A k \in ExactWindows : ~HasButton(HandledWindows[k])
        /\ (~settings.notifications_use_fuzzy_matching /\ ExactWindows = {})
              => app_marked = {}

\* C7 witness: fuzzy matching disabled, no exact match, and a window with a
\* button whose app_id equals the entry case-insensitively.
C7_Witness ==
    /\ AppMatchingRan
    /\ ~settings.notifications_use_fuzzy_matching
    /\ ExactWindows = {}
    /\ \E k \in DOMAIN HandledWindows :
          LET w == HandledWindows[k]
          IN  /\ HasButton(w)
              /\ IsSome(w.app_id)
              /\ to_lowercase(Unwrap(w.app_id))
                    = to_lowercase(RemappedEntry(HandledNotification))

\* Case-insensitive equality of whole strings, and of final segments.
SameIgnoringCase(a, b) == to_lowercase(a) = to_lowercase(b)
SameFinalSegment(a, b) ==
    to_lowercase(split_next_back(a)) = to_lowercase(split_next_back(b))

\* C8 as claimed: with fuzzy matching enabled and no exact match, the marked
\* windows are exactly those whose app_id equals the entry case-insensitively
\* or has the entry's final segment, an app_id without a dot included.
C8_FuzzySetIncludesDotless ==
    (AppMatchingRan /\ settings.notifications_use_fuzzy_matching /\ ExactWindows = {})
    => app_marked =
          {HandledWindows[k].id :
              k \in {j \in DOMAIN HandledWindows :
                        /\ IsSome(HandledWindows[j].app_id)
                        /\ \/ SameIgnoringCase(Unwrap(HandledWindows[j].app_id),
                                               RemappedEntry(HandledNotification))
                           \/ SameFinalSegment(Unwrap(HandledWindows[j].app_id),
                                               RemappedEntry(HandledNotification))}}

\* C8 as amended: with fuzzy matching enabled and no exact match, the marked
\* windows are exactly the windows with a button whose app_id equals the
\* entry case-insensitively, or contains a dot and has the entry's final
\* segment; an app_id without a dot matches only as a whole.
C8_FuzzySetNeedsDot ==
    (AppMatchingRan /\ settings.notifications_use_fuzzy_matching /\ ExactWindows = {})
    => app_marked =
          {HandledWindows[k].id :
              k \in {j \in DOMAIN HandledWindows :
                        /\ HasButton(HandledWindows[j])
                        /\ IsSome(HandledWindows[j].app_id)
                        /\ \/ SameIgnoringCase(Unwrap(HandledWindows[j].app_id),
                                               RemappedEntry(HandledNotification))
                           \/ /\ \E c \in Range(Unwrap(HandledWindows[j].app_id)) : c = "."
                              /\ SameFinalSegment(Unwrap(HandledWindows[j].app_id),
                                                  RemappedEntry(HandledNotification))}}

\* C8 witness: fuzzy matching marked a final-segment match and left alone a
\* window with a button whose dotless app_id is the entry's final segment.
C8_Witness ==
    /\ AppMatchingRan
    /\ settings.notifications_use_fuzzy_matching
    /\ ExactWindows = {}
    /\ \E i \in app_marked :
          ~SameIgnoringCase(Unwrap(WindowOf(i).app_id), RemappedEntry(HandledNotification))
    /\ \E k \in DOMAIN HandledWindows :
          LET w == HandledWindows[k]
          IN  /\ HasButton(w)
              /\ IsSome(w.app_id)
              /\ w.id \notin app_marked
              /\ SameFinalSegment(Unwrap(w.app_id), RemappedEntry(HandledNotification))

\* C28 (remapping): the comparisons use the entry the configuration maps the
\* notification's desktop entry to, the entry itself when it is not mapped:
\* every window marked by its app identifier equals the entry used, or with
\* fuzzy matching enabled equals it case-insensitively or in its final
\* segment; the windows with a button whose app_id is the entry used are
\* marked; and a window whose app_id is the notification's entry but not the
\* entry used is marked only as a fuzzy match.
C28_RemappedEntryCompared ==
    AppMatchingRan =>
        LET entry == Unwrap(HandledNotification.desktop_entry)
            used == IF entry \in DOMAIN map_app_ids THEN map_app_ids[entry] ELSE entry
            fuzzy(app_id) ==
                /\ settings.notifications_use_fuzzy_matching
                /\ \A k \in DOMAIN HandledWindows :
                      HasButton(HandledWindows[k]) => HandledWindows[k].app_id # Some(used)
                /\ \/ SameIgnoringCase(app_id, used)
                   \/ contains_dot(app_id) /\ SameFinalSegment(app_id, used)
        IN  /\ \A i \in app_marked :
                  \/ WindowOf(i).app_id = Some(used)
                  \/ fuzzy(Unwrap(WindowOf(i).app_id))
            /\ \A k \in DOMAIN HandledWindows :
                  (HasButton(HandledWindows[k]) /\ HandledWindows[k].app_id = Some(used))
                      => HandledWindows[k].id \in app_marked
            /\ \A k \in DOMAIN HandledWindows :
                  (/\ HandledWindows[k].app_id = Some(entry)
                   /\ entry # used
                   /\ HandledWindows[k].id \in app_marked)
                      => fuzzy(entry)

\* C28 witness: the notification's entry "b" is remapped to "B", fuzzy
\* matching is disabled, a window with a button has the app_id "b", and
\* nothing was marked.
C28_Witness ==
    /\ AppMatchingRan
    /\ HandledNotification.desktop_entry = Some(S_b)
    /\ ~settings.notifications_use_fuzzy_matching
    /\ \E k \in DOMAIN HandledWindows :
          HasButton(HandledWindows[k]) /\ HandledWindows[k].app_id = Some(S_b)
    /\ app_marked = {}

\* C9 (pid preference): the walk starts at the sender pid embedded in the
\* notification's hints when there is one, and at the bus-cache pid only
\* when the notification embeds none.
C9_HintPidPreferred ==
    (Handled /\ walked # <<>>) =>
        walked[1] = IF IsSome(HandledNotification.sender_pid)
                    THEN Unwrap(HandledNotification.sender_pid)
                    ELSE Unwrap(HandledNotification.process_id)

\* C24 (resolver errors stop the walk): when ProcessInfo::query fails on the
\* chain, the walk ends at the pid it failed for and the consumer is idle
\* again; the windows marked before stay marked, and when none was marked
\* app-identifier matching is entered and marks what it marks for the
\* notification.
C24_ErrorEndsWalkOnly ==
    (Handled /\ walk_end = "error") =>
        /\ AwaitsNextEvent
        /\ process_id = walked[Len(walked)]
        /\ \A i \in pid_marked : i \in DOMAIN buttons /\ buttons[i].urgent
        /\ pid_marked # {} => ~phase2
        /\ pid_marked = {} =>
              /\ phase2
              /\ app_marked =
                    AppIdMatch(HandledNotification, HandledWindows, buttons, settings)
              /\ \A i \in app_marked : buttons[i].urgent

\* C24 witness: the record of the parent could not be read, no window had
\* been marked, and app-identifier matching marked a window.
C24_Witness ==
    /\ Handled
    /\ walk_end = "error"
    /\ Len(walked) = 2
    /\ pid_marked = {}
    /\ app_marked # {}

\* C25 (the walk stops at the first match): the pid a window is marked for is
\* the last pid of the walk, so no ancestor beyond it is resolved or marked.
C25_WalkStopsAtFirstMatch ==
    Handled =>
        \A i \in DOMAIN walked :
            PidMatch(HandledWindows, buttons, walked[i]) # {} => i = Len(walked)

\* C26 (focused windows are never marked): no window a notification marks,
\* by pid or by app identifier, is focused in the snapshot.
C26_FocusedNeverMarked ==
    Handled => \A i \in pid_marked \cup app_marked : ~WindowOf(i).is_focused

\* C27 (phase-2 gating): a notification whose PID matching marked nothing and
\* which carries no desktop-entry hint, or is handled with desktop-entry
\* matching disabled, marks no window: handling it leaves every button as it
\* was.
C27_GatedNotificationMarksNothing ==
    [][(/\ hn_pc' = "idle"
        /\ IsSome(notification')
        /\ pid_marked' = {}
        /\ \/ ~settings.notifications_use_desktop_entry
           \/ ~IsSome(Unwrap(notification').desktop_entry))
       => (app_marked' = {} /\ buttons' = buttons)]_vars

\* C27 witness: with desktop-entry matching disabled, a notification whose
\* hint is exactly the app_id of a window with a button was handled, PID
\* matching marked nothing and the window is not urgent.
C27_Witness ==
    /\ Handled
    /\ pid_marked = {}
    /\ ~settings.notifications_use_desktop_entry
    /\ IsSome(HandledNotification.desktop_entry)
    /\ \E k \in DOMAIN HandledWindows :
          /\ HasButton(HandledWindows[k])
          /\ HandledWindows[k].app_id = HandledNotification.desktop_entry
          /\ ~buttons[HandledWindows[k].id].urgent

\* The windows of the handled snapshot that are fuzzy candidates of the
\* handled notification's entry.
FuzzyWindows ==
    {k \in DOMAIN HandledWindows :
        /\ IsSome(HandledWindows[k].app_id)
        /\ k \notin ExactWindows
        /\ \/ SameIgnoringCase(Unwrap(HandledWindows[k].app_id),
                               RemappedEntry(HandledNotification))
           \/ /\ \E c \in Range(Unwrap(HandledWindows[k].app_id)) : c = "."
              /\ SameFinalSegment(Unwrap(HandledWindows[k].app_id),
                                  RemappedEntry(HandledNotification))}

\* C37 (marks need a button): every marked id is the id of a window of the
\* current snapshot that has a button, and that button is urgent; when no
\* window with a button has a pid of the walk, PID matching counts as failed
\* and app-identifier matching is entered; and when no window with a button
\* matches the entry exactly, the fuzzy candidates that have a button are
\* all marked, fuzzy matching being enabled.
C37_MarksNeedButton ==
    Handled =>
        /\ \A i \in pid_marked \cup app_marked :
              /\ i \in DOMAIN buttons
              /\ buttons[i].urgent
              /\ \E k \in DOMAIN HandledWindows : HandledWindows[k].id = i
        /\ (\A k \in DOMAIN HandledWindows :
               (\E p \in Range(walked) : HandledWindows[k].pid = Some(p))
                   => ~HasButton(HandledWindows[k]))
              => (pid_marked = {} /\ ~matched /\ phase2)
        /\ (/\ AppMatchingRan
            /\ settings.notifications_use_fuzzy_matching
            /\ \A k \in ExactWindows : ~HasButton(HandledWindows[k]))
              => app_marked =
                    {HandledWindows[k].id :
                        k \in {j \in FuzzyWindows : HasButton(HandledWindows[j])}}

\* C37 witness: a non-focused window without a button has the notification's
\* pid and matches the entry exactly, and the other window, a fuzzy candidate
\* with a button, is marked by app-identifier matching.
C37_Witness ==
    /\ AppMatchingRan
    /\ settings.notifications_use_fuzzy_matching
    /\ walked # <<>>
    /\ \E k \in ExactWindows :
          /\ ~HasButton(HandledWindows[k])
          /\ ~HandledWindows[k].is_focused
          /\ HandledWindows[k].pid = Some(walked[1])
    /\ \E k \in FuzzyWindows : HandledWindows[k].id \in app_marked

\* --------------------------------------------------- event loop specification
\* The consumer's loop with window updates between notifications.  The
\* updates bring windows of one application on the shown output, owned by the
\* processes 1 and 2.
UpdateAttrs ==
    {a \in WindowAttrs : a.app_id = Some(S_b) /\ a.output = "o1" /\ IsSome(a.pid)}

UpdateSnapshots ==
    UNION {LET ord == SortedSeq(I)
           IN  {[k \in DOMAIN ord |-> MkWindow(ord[k], f[k])] :
                   f \in {g \in [DOMAIN ord -> UpdateAttrs] :
                            Cardinality({k \in DOMAIN ord : g[k].is_focused}) <= 1}}
           : I \in SUBSET WindowIds}

LoopInit ==
    /\ settings \in {s \in SettingsDomain : s.notifications_enabled}
    /\ display_filter = Some("o1")
    /\ MatcherConstructed
    /\ CoordConstructed
    /\ CacheConstructed
    /\ observed = {}
    /\ MonitorConstructed

LoopNotificationBegin == \E n \in NotificationDatas : NotificationBegin(n)
LoopWalkStep == \E readable \in BOOLEAN : WalkStep(readable)
LoopWindowUpdate == \E snapshot \in UpdateSnapshots : HandleWindowUpdate(snapshot)

LoopNext ==
    \/ LoopNotificationBegin
    \/ LoopWalkStep
    \/ LoopWindowUpdate

LoopSpec == LoopInit /\ [][LoopNext]_vars

\* ------------------------------------------------------ event loop properties
\* C22 (serialised matching): from the start of a handle_notification call to
\* its end, across its suspensions, no window update is applied and no other
\* notification is begun: the snapshot, the set of buttons, their focus and
\* the notification stay what they were when the call started.
C22_NoUpdateDuringNotification ==
    [][(hn_pc = "query" \/ hn_pc' = "query") =>
          /\ previous_snapshot' = previous_snapshot
          /\ DOMAIN buttons' = DOMAIN buttons
          /\ \A i \in DOMAIN buttons : buttons'[i].focused = buttons[i].focused
          /\ hn_pc = "query" => notification' = notification]_vars

\* C22 witness: after a window update, a notification was matched through two
\* suspensions of the walk and marked a window for an ancestor.
C22_Witness ==
    /\ hn_pc = "idle"
    /\ IsSome(notification)
    /\ IsSome(previous_snapshot)
    /\ Len(Unwrap(previous_snapshot)) = 2
    /\ Len(walked) = 3
    /\ pid_marked # {}

\* ---------------------------------------------------- resolver specification
\* ProcessInfo::query called again and again, on whatever record it finds.
ResolverQuery(record) ==
    /\ stat_record' = record
    /\ query_result' = ProcessInfo_query_record(record)
    /\ UNCHANGED <<settings, display_filter, previous_snapshot, buttons, hn_pc,
                   notification, process_id, matched, pid_marked, app_marked,
                   walked, walk_end, phase2>>
    /\ UNCHANGED <<coord_vars, cache_vars, monitor_vars>>

ResolverInit ==
    /\ settings \in {s \in SettingsDomain :
                        /\ s.notifications_enabled
                        /\ s.notifications_use_desktop_entry
                        /\ s.notifications_use_fuzzy_matching}
    /\ display_filter = None
    /\ MatcherConstructed
    /\ CoordConstructed
    /\ CacheConstructed
    /\ observed = {}
    /\ MonitorConstructed

ResolverNext == \E record \in StatRecords : ResolverQuery(record)

ResolverSpec == ResolverInit /\ [][ResolverNext]_vars

\* ------------------------------------------------------ resolver properties
\* The positions of the spaces of a text, the number of its space-separated
\* fields and its fourth field: what lies between the third space and the
\* next one (or the end).
SpacePositions(text) == {i \in DOMAIN text : text[i] = " "}
FieldCount(text) == Cardinality(SpacePositions(text)) + 1
FourthField(text) ==
    LET third == CHOOSE i \in SpacePositions(text) :
                    Cardinality({j \in SpacePositions(text) : j < i}) = 2
        later == {i \in SpacePositions(text) : i > third}
        next == IF later = {} THEN Len(text) + 1
                ELSE CHOOSE i \in later : \A j \in later : i <= j
    IN  SubSeq(text, third + 1, next - 1)

\* The integers a field of the model can denote, and the field denoting v.
FieldValues == (0 - MaxPpid - 1)..(MaxPpid + 1)
Denotes(field, v) ==
    \/ field = to_string(v)
    \/ v >= 0 /\ field = <<"+">> \o to_string(v)

\* C23 (ancestry resolver result): a call returns the integer of the fourth
\* space-separated field of the record it found as parent_id, 0 as no parent;
\* the malformed-record error when the record has fewer than four fields, the
\* invalid-parent error when the fourth field is no integer, an unavailable
\* error when the record cannot be opened or read; whatever was returned
\* before.
C23_ResolverResult ==
    query_result # NoResult =>
        IF ~stat_record.opens THEN query_result = Err("FileOpen")
        ELSE IF ~stat_record.reads THEN query_result = Err("FileRead")
        ELSE IF FieldCount(stat_record.content) < 4
        THEN query_result = Err("MalformedStat")
        ELSE IF \E v \in FieldValues : Denotes(FourthField(stat_record.content), v)
        THEN \E v \in FieldValues :
                /\ Denotes(FourthField(stat_record.content), v)
                /\ query_result = Ok(IF v = 0 THEN None ELSE Some(v))
        ELSE query_result = Err("InvalidPpid")

\* C23 witness: a record of five fields with the parent id 12 in the fourth
\* has been resolved to the parent 12.
C23_Witness ==
    /\ stat_record.opens /\ stat_record.reads
    /\ FieldCount(stat_record.content) = 5
    /\ FourthField(stat_record.content) = <<"1", "2">>
    /\ query_result = Ok(Some(12))

\* C32 (a notification before the first snapshot is discarded): handling a
\* notification while no window update has been received ends at once and
\* marks nothing, and the first window update that follows leaves no button
\* urgent: the notification is not matched against it.
C32_EarlyNotificationDiscarded ==
    [][~IsSome(previous_snapshot) =>
          /\ hn_pc' = "idle"
          /\ buttons = <<>>
          /\ pid_marked' = {} /\ app_marked' = {} /\ ~phase2' /\ walked' = <<>>
          /\ \A i \in DOMAIN buttons' : ~buttons'[i].urgent]_vars

\* C32 witness: a notification with a pid and a desktop entry has been handled
\* before any window update.
C32_Witness ==
    /\ ~IsSome(previous_snapshot)
    /\ hn_pc = "idle"
    /\ IsSome(notification)
    /\ IsSome(get_process_id(Unwrap(notification)))
    /\ IsSome(Unwrap(notification).desktop_entry)

\* ------------------------------------------------------- walk specification
\* The consumer's loop with its scheduling: a read of a process record
\* completes (or fails) and the executor resumes handle_notification.
WalkSpec == LoopInit /\ [][LoopNext]_vars /\ WF_vars(LoopWalkStep)

\* ----------------------------------------------------------- walk properties
\* C31 (the walk terminates): with the acyclic parent relation of the process
\* records, the walk looks up no pid twice -- so it is no longer than the
\* number of processes, though the loop counts no steps and remembers no pid
\* -- and a handle_notification suspended in the walk comes to its end, where
\* the consumer awaits the next event.
C31_WalkTerminates ==
    /\ [](/\ Len(walked) <= Cardinality(Pids)
          /\ \A i, j \in DOMAIN walked : walked[i] = walked[j] => i = j)
    /\ (hn_pc = "query") ~> AwaitsNextEvent

\* C31 witness: a walk from process 3 through 2 to the root 1 has ended at
\* the root and the consumer awaits the next event.
C31_Witness ==
    /\ AwaitsNextEvent
    /\ IsSome(notification)
    /\ walked = <<3, 2, 1>>
    /\ walk_end = "root"

\* ----------------------------------------------------- update specification
\* The consumer's loop with window updates that bring windows the filter
\* hides: windows of the applications "b" and "x" (ignored), on the shown
\* output and on another, owned by process 1.
FilterAttrs ==
    [app_id : {Some(S_b), Some(S_x)}, pid : {Some(1)}, is_focused : BOOLEAN,
     output : Outputs]

FilterSnapshots ==
    UNION {LET ord == SortedSeq(I)
           IN  {[k \in DOMAIN ord |-> MkWindow(ord[k], f[k])] :
                   f \in {g \in [DOMAIN ord -> FilterAttrs] :
                            Cardinality({k \in DOMAIN ord : g[k].is_focused}) <= 1}}
           : I \in SUBSET WindowIds}

UpdateWindowUpdate == \E snapshot \in FilterSnapshots : HandleWindowUpdate(snapshot)
UpdateNotificationBegin == \E n \in NotificationDatas : NotificationBegin(n)
UpdateWalkStep == \E readable \in BOOLEAN : WalkStep(readable)

UpdateNext ==
    \/ UpdateWindowUpdate
    \/ UpdateNotificationBegin
    \/ UpdateWalkStep

UpdateSpec == LoopInit /\ [][UpdateNext]_vars

\* --------------------------------------------------------- update properties
\* The ids of the windows of a snapshot that the display filter shows and the
\* ignore list does not name.
ShownIds(snapshot) ==
    {snapshot[k].id :
        k \in {j \in DOMAIN snapshot :
                  /\ display_filter = None \/ display_filter = Some(snapshot[j].output)
                  /\ \A id \in ignore_app_ids : snapshot[j].app_id # Some(id)}}

\* C35 (buttons follow the snapshot): the windows that have a button are
\* exactly the windows of the snapshot received last that pass the display
\* filter and are not on the ignore list -- none before the first snapshot --
\* and every window update leaves them so, removing the buttons of the
\* windows it no longer shows.
C35_ButtonsAreShownWindows ==
    /\ [](DOMAIN buttons = IF IsSome(previous_snapshot)
                           THEN ShownIds(Unwrap(previous_snapshot)) ELSE {})
    /\ [][previous_snapshot' # previous_snapshot =>
             /\ IsSome(previous_snapshot')
             /\ DOMAIN buttons' = ShownIds(Unwrap(previous_snapshot'))]_vars

\* C35 witness: after a window update the snapshot holds a window shown and
\* a window of the ignored application on the shown output, and only the
\* first has a button.
C35_Witness ==
    /\ IsSome(previous_snapshot)
    /\ notification = None
    /\ Len(Unwrap(previous_snapshot)) = 2
    /\ \E k \in DOMAIN Unwrap(previous_snapshot) :
          /\ Unwrap(previous_snapshot)[k].app_id = Some(S_x)
          /\ Unwrap(previous_snapshot)[k].output = "o1"
    /\ Cardinality(DOMAIN buttons) = 1

\* The step is a window update: the consumer was and is at its loop head and
\* no notification is recorded as the last event handled.
UpdateStep ==
    /\ AwaitsNextEvent /\ AwaitsNextEvent'
    /\ notification' = None
    /\ IsSome(previous_snapshot')

\* C36 (urgency lifecycle): a window update leaves every focused window it
\* shows not urgent, and leaves urgent every unfocused window it shows whose
\* button was urgent; no other step clears an urgent mark or removes a
\* button; and a window that gets a button it did not have starts not urgent.
C36_UrgencyLifecycle ==
    [][/\ UpdateStep =>
             \A k \in DOMAIN Unwrap(previous_snapshot') :
                LET w == Unwrap(previous_snapshot')[k]
                IN  w.id \in DOMAIN buttons' =>
                       /\ w.is_focused => ~buttons'[w.id].urgent
                       /\ (/\ ~w.is_focused
                           /\ w.id \in DOMAIN buttons
                           /\ buttons[w.id].urgent) => buttons'[w.id].urgent
       /\ ~UpdateStep =>
             \A i \in DOMAIN buttons :
                buttons[i].urgent => i \in DOMAIN buttons' /\ buttons'[i].urgent
       /\ \A i \in DOMAIN buttons' :
             i \notin DOMAIN buttons => ~buttons'[i].urgent]_vars

\* C36 witness: after a window update that followed a notification, one
\* window is still urgent and unfocused while the other is focused and not
\* urgent.
C36_Witness ==
    /\ IsSome(previous_snapshot)
    /\ notification = None
    /\ \E i, j \in DOMAIN buttons :
          /\ buttons[i].urgent /\ ~buttons[i].focused
          /\ buttons[j].focused /\ ~buttons[j].urgent

====
